---- MODULE Spec2Model ----
(***************************************************************************)
(* Tool-invocation hook layer: the baseline (agent_tools_hook_origin.py),  *)
(* the strategy-based rewrite (agent_tools_hook.py) and the dataclass      *)
(* package (agent_hooks/core.py, agent_hooks/orchestrator.py).             *)
(*                                                                         *)
(* One call of an entry point is followed from its entry to its return (or *)
(* to the exception that leaves it).  pc is the position inside the call:  *)
(*   "idle"      no call in progress                                       *)
(*   "loop"      at the head of the for loop of a run_all variant          *)
(*   "tool"      inside the try statement, the start line already logged,  *)
(*               the tool about to run                                     *)
(*   "convert"   invoke_all has returned to invoke_all_as_dicts            *)
(*   "returned"  the entry point has returned                              *)
(*   "ready"     the caller holds a ToolOrchestrator, no call in progress  *)
(*   "raised"    an exception has left the entry point                     *)
(***************************************************************************)
EXTENDS Integers, Sequences, FiniteSets, TLC

VARIABLES impl, op, style, tools, names, payloads, pc, index, cur, ret,
          results, calls, raised, conv, made, given, next_id, cur_id, ids,
          after, touched, orchestrator, served, module, wanted

vars == <<impl, op, style, tools, names, payloads, pc, index, cur, ret,
          results, calls, raised, conv, made, given, next_id, cur_id, ids,
          after, touched, orchestrator, served, module, wanted>>

(***************************************************************************)
(* Bounds                                                                  *)
(***************************************************************************)
\* longest input list handed to a run_all variant
MaxLen == 3

(***************************************************************************)
(* Python values: None, int, str, kept in one record shape                 *)
(***************************************************************************)
NoneV == [t |-> "none", i |-> 0, s |-> ""]

IntV(n) == [t |-> "int", i |-> n, s |-> ""]

StrV(x) == [t |-> "str", i |-> 0, s |-> x]

\* repr() of a value, as the !r conversion of an f-string renders it
repr(v) ==
  CASE v.t = "none" -> "None"
    [] v.t = "int" -> ToString(v.i)
    [] v.t = "str" -> "'" \o v.s \o "'"

RECURSIVE reprItems(_, _)
\* the items of a dict from the k-th on, in insertion order
reprItems(d, k) ==
  IF k > Len(d) THEN ""
  ELSE (IF k > 1 THEN ", " ELSE "") \o "'" \o d[k][1] \o "': "
       \o repr(d[k][2]) \o reprItems(d, k + 1)

\* repr() of a dict; a dict is the sequence of its <<key, value>> items
reprDict(d) == "{" \o reprItems(d, 1) \o "}"

(***************************************************************************)
(* Exceptions and tools                                                    *)
(***************************************************************************)
NoExc == [cls |-> "", msg |-> ""]

\* the classes an "except Exception" clause catches, among those the tools
\* raise; KeyboardInterrupt derives from BaseException only
ExceptionClasses == {"ValueError", "TypeError"}

\* variant: the message is prefixed with the name of the exception class
str_with_type(exc) == exc.cls \o ": " \o exc.msg

\* str(exc) of an exception built with one message argument
str(exc) == exc.msg

\* outcome of calling a tool: a returned value or a raised exception
Returns(v) == [kind |-> "return", out |-> v, exc |-> NoExc]

Raises(c, m) == [kind |-> "raise", out |-> NoneV, exc |-> [cls |-> c, msg |-> m]]

\* the tools: add(x, y) of the tests, a tool that returns a fixed value and
\* a tool that raises, each of the last two accepting any keyword arguments
AddTool == [kind |-> "add", out |-> NoneV, exc |-> NoExc]

ReturnTool(v) == [kind |-> "return", out |-> v, exc |-> NoExc]

RaiseTool(c, m) == [kind |-> "raise", out |-> NoneV, exc |-> [cls |-> c, msg |-> m]]

Tools ==
  { AddTool, ReturnTool(NoneV),
    RaiseTool("ValueError", "boom"), RaiseTool("TypeError", "boom"),
    RaiseTool("KeyboardInterrupt", "stop") }

\* keys of a dict, and the value under a key that is present
DictKeySet(d) == {d[k][1] : k \in 1..Len(d)}

DictGet(d, key) == d[CHOOSE k \in 1..Len(d) : d[k][1] = key][2]

\* add(**args) for def add(x, y): return x + y
CallAdd(args) ==
  LET unexpected == {k \in 1..Len(args) : args[k][1] \notin {"x", "y"}}
      first == CHOOSE k \in unexpected : \A j \in unexpected : k <= j
      missing == {"x", "y"} \ DictKeySet(args)
  IN IF unexpected # {}
     THEN Raises("TypeError", "add() got an unexpected keyword argument '"
                              \o args[first][1] \o "'")
     ELSE IF missing = {"x", "y"}
     THEN Raises("TypeError", "add() missing 2 required positional arguments: 'x' and 'y'")
     ELSE IF missing # {}
     THEN Raises("TypeError", "add() missing 1 required positional argument: '"
                              \o (CHOOSE m \in missing : TRUE) \o "'")
     ELSE Returns(IntV(DictGet(args, "x").i + DictGet(args, "y").i))

\* tool(**args)
Call(tool, args) ==
  CASE tool.kind = "add" -> CallAdd(args)
    [] tool.kind = "return" -> Returns(tool.out)
    [] tool.kind = "raise" -> Raises(tool.exc.cls, tool.exc.msg)

Names == <<"add", "t", "mul">>

Payloads ==
  << << <<"x", IntV(2)>>, <<"y", IntV(3)>> >>,
     << >>,
     << <<"s", StrV("a")>> >> >>

\* input lists of a run_all variant: k entries of the cycle that starts at p
NameList(p, k) == [i \in 1..k |-> Names[((i + p - 1) % Len(Names)) + 1]]

PayloadList(p, k) == [i \in 1..k |-> Payloads[((i + p - 1) % Len(Payloads)) + 1]]

ToolLists == UNION {[1..k -> Tools] : k \in 0..MaxLen}

(***************************************************************************)
(* Results                                                                 *)
(***************************************************************************)
DictKeys == <<"tool_name", "status", "error", "args", "output", "logs">>

\* placeholder of cur and ret while no result exists
NoResult ==
  [tool_name |-> "", status |-> "", error |-> NoneV, args |-> <<>>,
   output |-> NoneV, logs |-> <<>>]

\* outcome of a try statement: the result, and the exception that left it
Caught(r) == [result |-> r, escaped |-> NoExc]

Escaped(r, e) == [result |-> r, escaped |-> e]

(***************************************************************************)
(* Baseline: agent_tools_hook_origin.py                                    *)
(***************************************************************************)
\* call_tool_a up to the try statement
origin_call_tool_a_begin(name, args) ==
  LET result == [keys |-> DictKeys, tool_name |-> name, status |-> "ok",
                 error |-> NoneV, args |-> args, output |-> NoneV,
                 logs |-> <<>>]
  IN [result EXCEPT !.logs = Append(@, "calling " \o name \o " with " \o reprDict(args))]

\* variant: the except clause records the status and the log line but
\* leaves the error field unset
origin_call_tool_a_try_no_error(result, tool, args) ==
  LET o == Call(tool, args) IN
  IF o.kind = "raise"
  THEN IF o.exc.cls \in ExceptionClasses
       THEN Caught([result EXCEPT !.status = "error",
                                  !.logs = Append(@, "error: " \o str(o.exc))])
       ELSE Escaped(result, o.exc)
  ELSE Caught([result EXCEPT !.output = o.out, !.logs = Append(@, "done")])

\* the try statement of call_tool_a
origin_call_tool_a_try(result, tool, args) ==
  LET o == Call(tool, args) IN
  IF o.kind = "raise"
  THEN IF o.exc.cls \in ExceptionClasses
       THEN Caught([result EXCEPT !.status = "error",
                                  !.error = StrV(str(o.exc)),
                                  !.logs = Append(@, "error: " \o str(o.exc))])
       ELSE Escaped(result, o.exc)
  ELSE Caught([result EXCEPT !.output = o.out, !.logs = Append(@, "done")])

\* variant: the start line is not yet in the logs when the try statement
\* begins
origin_call_tool_b_begin_unlogged(name, args) ==
  [keys |-> DictKeys, tool_name |-> name, status |-> "ok",
   error |-> NoneV, args |-> args, output |-> NoneV, logs |-> <<>>]

\* call_tool_b up to the try statement
origin_call_tool_b_begin(name, args) ==
  LET result == [keys |-> DictKeys, tool_name |-> name, status |-> "ok",
                 error |-> NoneV, args |-> args, output |-> NoneV,
                 logs |-> <<>>]
  IN [result EXCEPT !.logs = Append(@, "tool " \o name \o " start " \o reprDict(args))]

\* variant: the except clause records the error and the log line but
\* leaves the status 'ok'
origin_call_tool_b_try_no_status(result, tool, args) ==
  LET o == Call(tool, args) IN
  IF o.kind = "raise"
  THEN IF o.exc.cls \in ExceptionClasses
       THEN Caught([result EXCEPT !.error = StrV(str(o.exc)),
                                  !.logs = Append(@, "failed: " \o str(o.exc))])
       ELSE Escaped(result, o.exc)
  ELSE Caught([result EXCEPT !.output = o.out, !.logs = Append(@, "ok")])

\* the try statement of call_tool_b
origin_call_tool_b_try(result, tool, args) ==
  LET o == Call(tool, args) IN
  IF o.kind = "raise"
  THEN IF o.exc.cls \in ExceptionClasses
       THEN Caught([result EXCEPT !.status = "error",
                                  !.error = StrV(str(o.exc)),
                                  !.logs = Append(@, "failed: " \o str(o.exc))])
       ELSE Escaped(result, o.exc)
  ELSE Caught([result EXCEPT !.output = o.out, !.logs = Append(@, "ok")])

\* run_all: which of the two functions position index goes to
origin_run_all_style(i) == IF i % 2 = 0 THEN "a" ELSE "b"

(***************************************************************************)
(* Strategy-based rewrite: agent_tools_hook.py                             *)
(***************************************************************************)
\* variant: the dictionary is written with args ahead of error
ToolResult_to_dict_reordered(r) ==
  [keys |-> <<"tool_name", "status", "args", "error", "output", "logs">>,
   tool_name |-> r.tool_name, status |-> r.status,
   error |-> r.error, args |-> r.args, output |-> r.output, logs |-> r.logs]


\* ToolResult.to_dict
ToolResult_to_dict(r) ==
  [keys |-> DictKeys, tool_name |-> r.tool_name, status |-> r.status,
   error |-> r.error, args |-> r.args, output |-> r.output, logs |-> r.logs]

LogStrategyA_log_start(name, args) == "calling " \o name \o " with " \o reprDict(args)

\* variant: the error line of the other strategy, pasted into this one
LogStrategyA_log_error_pasted(exc) == "failed: " \o str(exc)

LogStrategyA_log_error(exc) == "error: " \o str(exc)

\* variant: the success line of the other strategy, pasted into this one
LogStrategyA_log_end_pasted == "ok"

LogStrategyA_log_end == "done"

LogStrategyB_log_start(name, args) == "tool " \o name \o " start " \o reprDict(args)

\* variant: the error line of the other strategy, pasted into this one
LogStrategyB_log_error_pasted(exc) == "error: " \o str(exc)

LogStrategyB_log_error(exc) == "failed: " \o str(exc)

LogStrategyB_log_end == "ok"

\* method dispatch on the strategy object
log_start(strategy, name, args) ==
  IF strategy = "LogStrategyA" THEN LogStrategyA_log_start(name, args)
  ELSE LogStrategyB_log_start(name, args)

log_error(strategy, exc) ==
  IF strategy = "LogStrategyA" THEN LogStrategyA_log_error(exc)
  ELSE LogStrategyB_log_error(exc)

log_end(strategy) ==
  IF strategy = "LogStrategyA" THEN LogStrategyA_log_end
  ELSE LogStrategyB_log_end

\* ToolCaller.__init__
ToolCaller(strategy) == [log_strategy |-> strategy]

\* variant: the start line is never appended
ToolCaller_call_begin_no_start(self, name, args) ==
  [tool_name |-> name, status |-> "ok", error |-> NoneV, args |-> args,
   output |-> NoneV, logs |-> <<>>]

\* ToolCaller.call up to the try statement
ToolCaller_call_begin(self, name, args) ==
  LET result == [tool_name |-> name, status |-> "ok", error |-> NoneV,
                 args |-> args, output |-> NoneV, logs |-> <<>>]
  IN [result EXCEPT !.logs = Append(@, log_start(self.log_strategy, name, args))]

\* the try statement of ToolCaller.call
ToolCaller_call_try(self, result, tool, args) ==
  LET o == Call(tool, args) IN
  IF o.kind = "raise"
  THEN IF o.exc.cls \in ExceptionClasses
       THEN Caught([result EXCEPT !.status = "error",
                                  !.error = StrV(str(o.exc)),
                                  !.logs = Append(@, log_error(self.log_strategy, o.exc))])
       ELSE Escaped(result, o.exc)
  ELSE Caught([result EXCEPT !.output = o.out,
                             !.logs = Append(@, log_end(self.log_strategy))])

\* variant: the two callers are registered under each other's key
ToolOrchestrator_callers_swapped ==
  [a |-> ToolCaller("LogStrategyB"), b |-> ToolCaller("LogStrategyA")]

\* ToolOrchestrator.__init__
ToolOrchestrator_callers ==
  [a |-> ToolCaller("LogStrategyA"), b |-> ToolCaller("LogStrategyB")]

\* ToolOrchestrator(): the object, with its one attribute
ToolOrchestrator_new == [callers |-> ToolOrchestrator_callers]

\* placeholder of orchestrator while no ToolOrchestrator exists
NoOrchestrator == [callers |-> <<>>]

\* variant: the position is counted on from the calls the orchestrator has
\* served before
run_all_alternating_style_carried(i) ==
  IF (served + i) % 2 = 0 THEN "a" ELSE "b"

\* variant: only the first position goes to caller "a"
run_all_alternating_style_first_only(i) == IF i = 0 THEN "a" ELSE "b"

\* run_all_alternating: the caller position index goes to
run_all_alternating_style(i) == IF i % 2 = 0 THEN "a" ELSE "b"

(***************************************************************************)
(* Dataclass package: agent_hooks/core.py, agent_hooks/orchestrator.py     *)
(***************************************************************************)
\* ToolInvocation, after __post_init__ accepted log_style
ToolInvocation(tool, name, args, log_style) ==
  [tool |-> tool, name |-> name, args |-> args, log_style |-> log_style]

\* variant: the result is built with an empty mapping instead of the
\* invocation's args
invoke_tool_begin_no_args(invocation) ==
  LET result == [tool_name |-> invocation.name, status |-> "ok",
                 error |-> NoneV, args |-> <<>>,
                 output |-> NoneV, logs |-> <<>>]
  IN IF invocation.log_style = "a"
     THEN [result EXCEPT !.logs = Append(@, "calling " \o invocation.name
                                   \o " with " \o reprDict(invocation.args))]
     ELSE [result EXCEPT !.logs = Append(@, "tool " \o invocation.name
                                   \o " start " \o reprDict(invocation.args))]

\* invoke_tool up to the try statement
invoke_tool_begin(invocation) ==
  LET result == [tool_name |-> invocation.name, status |-> "ok",
                 error |-> NoneV, args |-> invocation.args,
                 output |-> NoneV, logs |-> <<>>]
  IN IF invocation.log_style = "a"
     THEN [result EXCEPT !.logs = Append(@, "calling " \o invocation.name
                                   \o " with " \o reprDict(invocation.args))]
     ELSE [result EXCEPT !.logs = Append(@, "tool " \o invocation.name
                                   \o " start " \o reprDict(invocation.args))]

\* variant: the except clause names ValueError instead of Exception
invoke_tool_try_narrow(invocation, result) ==
  LET o == Call(invocation.tool, invocation.args) IN
  IF o.kind = "raise"
  THEN IF o.exc.cls = "ValueError"
       THEN LET r == [result EXCEPT !.status = "error",
                                    !.error = StrV(str(o.exc))]
            IN IF invocation.log_style = "a"
               THEN Caught([r EXCEPT !.logs = Append(@, "error: " \o str(o.exc))])
               ELSE Caught([r EXCEPT !.logs = Append(@, "failed: " \o str(o.exc))])
       ELSE Escaped(result, o.exc)
  ELSE LET r == [result EXCEPT !.output = o.out]
       IN IF invocation.log_style = "a"
          THEN Caught([r EXCEPT !.logs = Append(@, "done")])
          ELSE Caught([r EXCEPT !.logs = Append(@, "ok")])

\* variant: the outcome line is chosen by comparing log_style with 'b'
invoke_tool_try_b_tested(invocation, result) ==
  LET o == Call(invocation.tool, invocation.args) IN
  IF o.kind = "raise"
  THEN IF o.exc.cls \in ExceptionClasses
       THEN LET r == [result EXCEPT !.status = "error",
                                    !.error = StrV(str(o.exc))]
            IN IF invocation.log_style = "b"
               THEN Caught([r EXCEPT !.logs = Append(@, "failed: " \o str(o.exc))])
               ELSE Caught([r EXCEPT !.logs = Append(@, "error: " \o str(o.exc))])
       ELSE Escaped(result, o.exc)
  ELSE LET r == [result EXCEPT !.output = o.out]
       IN IF invocation.log_style = "b"
          THEN Caught([r EXCEPT !.logs = Append(@, "ok")])
          ELSE Caught([r EXCEPT !.logs = Append(@, "done")])

\* the try statement of invoke_tool
invoke_tool_try(invocation, result) ==
  LET o == Call(invocation.tool, invocation.args) IN
  IF o.kind = "raise"
  THEN IF o.exc.cls \in ExceptionClasses
       THEN LET r == [result EXCEPT !.status = "error",
                                    !.error = StrV(str(o.exc))]
            IN IF invocation.log_style = "a"
               THEN Caught([r EXCEPT !.logs = Append(@, "error: " \o str(o.exc))])
               ELSE Caught([r EXCEPT !.logs = Append(@, "failed: " \o str(o.exc))])
       ELSE Escaped(result, o.exc)
  ELSE LET r == [result EXCEPT !.output = o.out]
       IN IF invocation.log_style = "a"
          THEN Caught([r EXCEPT !.logs = Append(@, "done")])
          ELSE Caught([r EXCEPT !.logs = Append(@, "ok")])

\* invoke_all: the log_style of position index
invoke_all_log_style(i) == IF i % 2 = 0 THEN "a" ELSE "b"

(***************************************************************************)
(* One invocation, whichever implementation runs it                        *)
(***************************************************************************)
Min(a, b) == IF a < b THEN a ELSE b

\* variant: the loop runs over range(shortest - 1)
zip_len_short(ts, ns, ps) ==
  IF Min(Len(ts), Min(Len(ns), Len(ps))) > 0
  THEN Min(Len(ts), Min(Len(ns), Len(ps))) - 1
  ELSE 0

\* number of triples zip(tools, names, payloads) yields
zip_len(ts, ns, ps) == Min(Len(ts), Min(Len(ns), Len(ps)))

\* the ToolCaller an invocation of the rewrite goes through: a fresh one in
\* call_tool_a / call_tool_b, one of the orchestrator's in run_all
caller_of(o, s) ==
  IF o = "single"
  THEN (IF s = "a" THEN ToolCaller("LogStrategyA") ELSE ToolCaller("LogStrategyB"))
  ELSE orchestrator.callers[s]

\* the invocation up to its try statement
Begin(i, o, s, tool, name, args) ==
  CASE i = "origin" ->
         (IF s = "a" THEN origin_call_tool_a_begin(name, args)
          ELSE origin_call_tool_b_begin(name, args))
    [] i = "enhanced" -> ToolCaller_call_begin(caller_of(o, s), name, args)
    [] i = "hooks" -> invoke_tool_begin(ToolInvocation(tool, name, args, s))

\* the try statement of the invocation
Try(i, o, s, result, tool, name, args) ==
  CASE i = "origin" ->
         (IF s = "a" THEN origin_call_tool_a_try(result, tool, args)
          ELSE origin_call_tool_b_try(result, tool, args))
    [] i = "enhanced" -> ToolCaller_call_try(caller_of(o, s), result, tool, args)
    [] i = "hooks" -> invoke_tool_try(ToolInvocation(tool, name, args, s), result)

\* what the entry point hands back for a finished invocation
Returned(i, r) == IF i = "enhanced" THEN ToolResult_to_dict(r) ELSE r

\* the style of position k in the loop of a run_all variant
style_at(i, k) ==
  CASE i = "origin" -> origin_run_all_style(k)
    [] i = "enhanced" -> run_all_alternating_style(k)
    [] i = "hooks" -> invoke_all_log_style(k)

\* variant: the result is inserted at the front
append_front(rs, r) == <<r>> \o rs

\* results.append(...)
append(rs, r) == Append(rs, r)

(***************************************************************************)
(* Dataclass package: conversions and the list-of-dicts wrapper            *)
(***************************************************************************)
\* agent_hooks.core.ToolResult.to_dict
core_ToolResult_to_dict(self) ==
  [keys |-> <<"tool_name", "status", "error", "args", "output", "logs">>,
   tool_name |-> self.tool_name, status |-> self.status,
   error |-> self.error, args |-> self.args, output |-> self.output,
   logs |-> self.logs]

\* variant: the error field is not carried over
core_ToolResult_from_dict_no_error(d) ==
  [tool_name |-> d.tool_name, status |-> d.status, error |-> NoneV,
   args |-> d.args, output |-> d.output, logs |-> d.logs]


\* agent_hooks.core.ToolResult.from_dict
core_ToolResult_from_dict(d) ==
  [tool_name |-> d.tool_name, status |-> d.status, error |-> d.error,
   args |-> d.args, output |-> d.output, logs |-> d.logs]

\* variant: the wrapper hands back the ToolResult objects unconverted
to_dicts_objects(rs) == rs


\* [result.to_dict() for result in results]
to_dicts(rs) == [k \in 1..Len(rs) |-> core_ToolResult_to_dict(rs[k])]

\* a plain dictionary, as opposed to a dataclass instance
IsDict(x) == "keys" \in DOMAIN x

(***************************************************************************)
(* ToolInvocation.__init__ with __post_init__                              *)
(***************************************************************************)
NoInvocation ==
  [tool |-> ReturnTool(NoneV), name |-> "", args |-> <<>>, log_style |-> ""]

\* the log_style argument of the constructor: left out, or a string
Omitted == [present |-> FALSE, value |-> ""]

Given(v) == [present |-> TRUE, value |-> v]

LogStyleArgs == {Omitted, Given("a"), Given("b"), Given("c"), Given("")}

\* variant: __post_init__ checks nothing
ToolInvocation_new_unchecked(tool, name, args, arg) ==
  [obj |-> ToolInvocation(tool, name, args,
                          IF arg.present THEN arg.value ELSE "a"),
   escaped |-> NoExc]


\* the constructor: the object built, or the error __post_init__ raises
ToolInvocation_new(tool, name, args, arg) ==
  LET log_style == IF arg.present THEN arg.value ELSE "a" IN
  IF log_style \notin {"a", "b"}
  THEN [obj |-> NoInvocation,
        escaped |-> [cls |-> "ValueError",
                     msg |-> "log_style must be 'a' or 'b', got "
                             \o repr(StrV(log_style))]]
  ELSE [obj |-> ToolInvocation(tool, name, args, log_style),
        escaped |-> NoExc]

(***************************************************************************)
(* Identity of the logs lists                                              *)
(***************************************************************************)
\* a list display [] evaluates to a new list object: n is the next unused
\* object identity
fresh_list(n) == n

\* variant: every ToolResult is given the same default list
ToolResult_default_logs_shared(n) == 0


\* logs: List[str] = field(default_factory=list)
ToolResult_default_logs(n) == fresh_list(n)

\* the logs list the result of an invocation of implementation i is built
\* with
logs_object(i, n) ==
  IF i = "enhanced" THEN ToolResult_default_logs(n) ELSE fresh_list(n)

\* list.append through one reference: every result whose logs is the list
\* object of result k sees the new line
append_to_logs(rs, identities, k, line) ==
  [j \in 1..Len(rs) |->
     IF identities[j] = identities[k]
     THEN [rs[j] EXCEPT !.logs = Append(@, line)]
     ELSE rs[j]]

(***************************************************************************)
(* Module namespaces and the objects a caller may hold between calls       *)
(***************************************************************************)
\* the names each module binds at module level (imports left out); none of
\* them is rebound by a function of the module
Modules ==
  [agent_tools_hook_origin |-> {"Tool", "call_tool_a", "call_tool_b", "run_all"},
   agent_tools_hook |->
     {"Tool", "ToolInvocation", "ToolResult", "LogStrategy", "LogStrategyA",
      "LogStrategyB", "ToolCaller", "call_tool_a", "call_tool_b",
      "ToolOrchestrator", "run_all"},
   core |-> {"Tool", "ToolInvocation", "ToolResult", "invoke_tool"},
   orchestrator |-> {"invoke_all", "invoke_all_as_dicts"}]

\* the names the callers of agent_tools_hook ask it for
ImportedNames ==
  {"call_tool_a", "call_tool_b", "run_all", "ToolResult", "ToolOrchestrator",
   "invoke_single_tool", "run_all_tools"}

\* from agent_tools_hook import n, for a name the module does not bind (the
\* file path that ends the message is left out)
ImportError(n) ==
  [cls |-> "ImportError",
   msg |-> "cannot import name '" \o n \o "' from 'agent_tools_hook'"]

\* most invocations one ToolOrchestrator is followed through before its
\* last call
MaxServed == 3

(***************************************************************************)
(* State machine                                                           *)
(***************************************************************************)
Init ==
  /\ impl = "none"
  /\ op = "none"
  /\ style = "none"
  /\ tools = <<>>
  /\ names = <<>>
  /\ payloads = <<>>
  /\ pc = "idle"
  /\ index = 0
  /\ cur = NoResult
  /\ ret = NoResult
  /\ results = <<>>
  /\ calls = <<>>
  /\ raised = NoExc
  /\ conv = <<>>
  /\ made = NoInvocation
  /\ given = Omitted
  /\ next_id = 1
  /\ cur_id = 0
  /\ ids = <<>>
  /\ after = <<>>
  /\ touched = 0
  /\ orchestrator = NoOrchestrator
  /\ served = 0
  /\ module = Modules
  /\ wanted = ""

\* entry of a single invocation of implementation i with style s
EnterSingle(i, s) ==
  /\ pc = "idle"
  /\ \E tool \in Tools, n \in 1..Len(Names), p \in 1..Len(Payloads) :
       /\ tools' = <<tool>>
       /\ names' = <<Names[n]>>
       /\ payloads' = <<Payloads[p]>>
       /\ cur' = Begin(i, "single", s, tool, Names[n], Payloads[p])
  /\ impl' = i
  /\ op' = "single"
  /\ style' = s
  /\ index' = 0
  /\ pc' = "tool"
  /\ cur_id' = logs_object(i, next_id)
  /\ next_id' = next_id + 1
  /\ UNCHANGED <<ret, results, calls, raised, conv, made, given, ids, after,
                 touched,
                 orchestrator, served, module, wanted>>

\* agent_tools_hook_origin.call_tool_a
OriginCallToolA == EnterSingle("origin", "a")

\* agent_tools_hook_origin.call_tool_b
OriginCallToolB == EnterSingle("origin", "b")

\* agent_tools_hook.call_tool_a
CallToolA == EnterSingle("enhanced", "a")

\* agent_tools_hook.call_tool_b
CallToolB == EnterSingle("enhanced", "b")

\* agent_hooks.core.invoke_tool on a ToolInvocation of either log_style
InvokeTool == \E s \in {"a", "b"} : EnterSingle("hooks", s)

\* variant: the result list starts with a placeholder entry
EnterRunAll_seeded(i) ==
  /\ pc = "idle"
  /\ \E ts \in ToolLists, np \in 0..1, nk \in 0..MaxLen,
        pp \in 0..1, pk \in 0..MaxLen :
       /\ tools' = ts
       /\ names' = NameList(np, nk)
       /\ payloads' = PayloadList(pp, pk)
  /\ impl' = i
  /\ op' = "run_all"
  /\ index' = 0
  /\ results' = <<NoResult>>
  /\ pc' = "loop"
  /\ orchestrator' = IF i = "enhanced" THEN ToolOrchestrator_new
                     ELSE orchestrator
  /\ UNCHANGED <<style, cur, ret, calls, raised, conv, made, given, next_id,
                 cur_id, ids, after, touched, served, module, wanted>>

\* entry of a run_all variant of implementation i: results = []
EnterRunAll(i) ==
  /\ pc = "idle"
  /\ \E ts \in ToolLists, np \in 0..1, nk \in 0..MaxLen,
        pp \in 0..1, pk \in 0..MaxLen :
       /\ tools' = ts
       /\ names' = NameList(np, nk)
       /\ payloads' = PayloadList(pp, pk)
  /\ impl' = i
  /\ op' = "run_all"
  /\ index' = 0
  /\ results' = <<>>
  /\ pc' = "loop"
  /\ orchestrator' = IF i = "enhanced" THEN ToolOrchestrator_new
                     ELSE orchestrator
  /\ UNCHANGED <<style, cur, ret, calls, raised, conv, made, given, next_id,
                 cur_id, ids, after, touched, served, module, wanted>>

\* agent_tools_hook_origin.run_all
OriginRunAll == EnterRunAll("origin")

\* agent_tools_hook.run_all: a new ToolOrchestrator, then its
\* run_all_alternating
RunAll == EnterRunAll("enhanced")

\* agent_hooks.orchestrator.invoke_all
InvokeAll == EnterRunAll("hooks")

\* agent_hooks.orchestrator.invoke_all_as_dicts: it calls invoke_all first
InvokeAllAsDicts ==
  /\ pc = "idle"
  /\ \E ts \in ToolLists, np \in 0..1, nk \in 0..MaxLen,
        pp \in 0..1, pk \in 0..MaxLen :
       /\ tools' = ts
       /\ names' = NameList(np, nk)
       /\ payloads' = PayloadList(pp, pk)
  /\ impl' = "hooks"
  /\ op' = "run_all_as_dicts"
  /\ index' = 0
  /\ results' = <<>>
  /\ pc' = "loop"
  /\ UNCHANGED <<style, cur, ret, calls, raised, conv, made, given, next_id,
                 cur_id, ids, after, touched,
                 orchestrator, served, module, wanted>>

\* variant: the result is created once, ahead of the loop, so that status
\* and error of the invocation before are still set when the next starts
LoopNext_carries ==
  /\ pc = "loop"
  /\ index < zip_len(tools, names, payloads)
  /\ style' = style_at(impl, index)
  /\ cur' = [Begin(impl, op, style_at(impl, index), tools[index + 1],
                   names[index + 1], payloads[index + 1])
             EXCEPT !.status = IF index > 0 THEN cur.status ELSE @,
                    !.error = IF index > 0 THEN cur.error ELSE @]
  /\ pc' = "tool"
  /\ cur_id' = logs_object(impl, next_id)
  /\ next_id' = next_id + 1
  /\ UNCHANGED <<impl, op, tools, names, payloads, index, ret, results,
                 calls, raised, conv, made, given, ids, after, touched,
                 orchestrator, served, module, wanted>>

\* one more triple from enumerate(zip(...)): the invocation starts
LoopNext ==
  /\ pc = "loop"
  /\ index < zip_len(tools, names, payloads)
  /\ style' = style_at(impl, index)
  /\ cur' = Begin(impl, op, style_at(impl, index), tools[index + 1],
                  names[index + 1], payloads[index + 1])
  /\ pc' = "tool"
  /\ cur_id' = logs_object(impl, next_id)
  /\ next_id' = next_id + 1
  /\ UNCHANGED <<impl, op, tools, names, payloads, index, ret, results,
                 calls, raised, conv, made, given, ids, after, touched,
                 orchestrator, served, module, wanted>>

\* variant: before returning, the orchestrator exchanges its two callers
LoopEnd_swaps_callers ==
  /\ pc = "loop"
  /\ index >= zip_len(tools, names, payloads)
  /\ pc' = IF op = "run_all_as_dicts" THEN "convert" ELSE "returned"
  /\ orchestrator' =
       IF orchestrator = NoOrchestrator THEN orchestrator
       ELSE [callers |-> [a |-> orchestrator.callers.b,
                          b |-> orchestrator.callers.a]]
  /\ UNCHANGED <<impl, op, style, tools, names, payloads, index, cur, ret,
                 results, calls, raised, conv, made, given, next_id, cur_id,
                 ids, after, touched, served, module, wanted>>

\* zip is exhausted: return results (to invoke_all_as_dicts, when it is the
\* caller of invoke_all)
LoopEnd ==
  /\ pc = "loop"
  /\ index >= zip_len(tools, names, payloads)
  /\ pc' = IF op = "run_all_as_dicts" THEN "convert" ELSE "returned"
  /\ UNCHANGED <<impl, op, style, tools, names, payloads, index, cur, ret,
                 results, calls, raised, conv, made, given, next_id, cur_id,
                 ids, after, touched,
                 orchestrator, served, module, wanted>>

\* invoke_all_as_dicts converts what invoke_all returned and returns it
ToDicts ==
  /\ pc = "convert"
  /\ results' = to_dicts(results)
  /\ pc' = "returned"
  /\ UNCHANGED <<impl, op, style, tools, names, payloads, index, cur, ret,
                 calls, raised, conv, made, given, next_id, cur_id, ids,
                 after, touched,
                 orchestrator, served, module, wanted>>

\* the try statement of the invocation in progress
TryNow ==
  Try(impl, op, style, cur, tools[index + 1], names[index + 1],
      payloads[index + 1])

\* variant: a tool that raised is called a second time before the result
\* is handed back
Finish_retried(r) ==
  /\ cur' = r
  /\ calls' = IF r.status = "error"
              THEN calls \o << [pos |-> index, style |-> style],
                               [pos |-> index, style |-> style] >>
              ELSE Append(calls, [pos |-> index, style |-> style])
  /\ ids' = Append(ids, cur_id)
  /\ IF op \in {"single", "invoke_made"}
     THEN /\ ret' = Returned(impl, r)
          /\ pc' = "returned"
          /\ UNCHANGED <<index, results>>
     ELSE /\ results' = append(results, Returned(impl, r))
          /\ index' = index + 1
          /\ pc' = "loop"
          /\ UNCHANGED ret
  /\ UNCHANGED <<impl, op, style, tools, names, payloads, raised, conv,
                 made, given, next_id, cur_id, after, touched,
                 orchestrator, served, module, wanted>>

\* the invocation in progress ends with result r
Finish(r) ==
  /\ cur' = r
  /\ calls' = Append(calls, [pos |-> index, style |-> style])
  /\ ids' = Append(ids, cur_id)
  /\ IF op \in {"single", "invoke_made"}
     THEN /\ ret' = Returned(impl, r)
          /\ pc' = "returned"
          /\ UNCHANGED <<index, results>>
     ELSE /\ results' = append(results, Returned(impl, r))
          /\ index' = index + 1
          /\ pc' = "loop"
          /\ UNCHANGED ret
  /\ UNCHANGED <<impl, op, style, tools, names, payloads, raised, conv,
                 made, given, next_id, cur_id, after, touched,
                 orchestrator, served, module, wanted>>

\* the tool returns: the else branch of the try statement
ToolReturns ==
  /\ pc = "tool"
  /\ Call(tools[index + 1], payloads[index + 1]).kind = "return"
  /\ Finish(TryNow.result)

\* variant: a run_all variant returns what it has as soon as a tool raises
ToolRaises_stops ==
  /\ pc = "tool"
  /\ Call(tools[index + 1], payloads[index + 1]).kind = "raise"
  /\ TryNow.escaped = NoExc
  /\ cur' = TryNow.result
  /\ calls' = Append(calls, [pos |-> index, style |-> style])
  /\ ids' = Append(ids, cur_id)
  /\ IF op = "single"
     THEN /\ ret' = Returned(impl, TryNow.result)
          /\ UNCHANGED <<index, results>>
     ELSE /\ results' = append(results, Returned(impl, TryNow.result))
          /\ index' = index + 1
          /\ UNCHANGED ret
  /\ pc' = "returned"
  /\ UNCHANGED <<impl, op, style, tools, names, payloads, raised, conv,
                 made, given, next_id, cur_id, after, touched,
                 orchestrator, served, module, wanted>>

\* the tool raises and the except clause catches it
ToolRaises ==
  /\ pc = "tool"
  /\ Call(tools[index + 1], payloads[index + 1]).kind = "raise"
  /\ TryNow.escaped = NoExc
  /\ Finish(TryNow.result)

\* the tool raises and no except clause matches: the exception leaves the
\* invocation and, in a run_all variant, the loop
ToolEscapes ==
  /\ pc = "tool"
  /\ Call(tools[index + 1], payloads[index + 1]).kind = "raise"
  /\ TryNow.escaped # NoExc
  /\ raised' = TryNow.escaped
  /\ calls' = Append(calls, [pos |-> index, style |-> style])
  /\ pc' = "raised"
  /\ UNCHANGED <<impl, op, style, tools, names, payloads, index, cur, ret,
                 results, conv, made, given, next_id, cur_id, ids, after,
                 touched,
                 orchestrator, served, module, wanted>>

\* the object the next conversion applies to: the returned result, or the
\* outcome of the conversion before
Convertible == IF conv = <<>> THEN ret ELSE conv[Len(conv)]

\* the caller converts a returned ToolResult with to_dict
ToDict ==
  /\ pc = "returned"
  /\ op = "single"
  /\ Len(conv) < 2
  /\ ~IsDict(Convertible)
  /\ conv' = Append(conv, core_ToolResult_to_dict(Convertible))
  /\ UNCHANGED <<impl, op, style, tools, names, payloads, pc, index, cur,
                 ret, results, calls, raised, made, given, next_id, cur_id,
                 ids, after, touched,
                 orchestrator, served, module, wanted>>

\* the caller converts a returned dictionary with ToolResult.from_dict
FromDict ==
  /\ pc = "returned"
  /\ op = "single"
  /\ Len(conv) < 2
  /\ IsDict(Convertible)
  /\ conv' = Append(conv, core_ToolResult_from_dict(Convertible))
  /\ UNCHANGED <<impl, op, style, tools, names, payloads, pc, index, cur,
                 ret, results, calls, raised, made, given, next_id, cur_id,
                 ids, after, touched,
                 orchestrator, served, module, wanted>>

\* ToolInvocation(tool, name, args[, log_style])
NewToolInvocation ==
  /\ pc = "idle"
  /\ \E tool \in Tools, n \in 1..Len(Names), p \in 1..Len(Payloads),
        g \in LogStyleArgs :
       LET c == ToolInvocation_new(tool, Names[n], Payloads[p], g) IN
       /\ tools' = <<tool>>
       /\ names' = <<Names[n]>>
       /\ payloads' = <<Payloads[p]>>
       /\ given' = g
       /\ made' = c.obj
       /\ raised' = c.escaped
       /\ pc' = IF c.escaped = NoExc THEN "returned" ELSE "raised"
  /\ impl' = "hooks"
  /\ op' = "construct"
  /\ UNCHANGED <<style, index, cur, ret, results, calls, conv, next_id,
                 cur_id, ids, after, touched,
                 orchestrator, served, module, wanted>>

\* the caller of a run_all variant appends a line to the logs of the k-th
\* result it was handed
ClientAppends ==
  /\ pc = "returned"
  /\ op = "run_all"
  /\ touched = 0
  /\ \E k \in 1..Len(results) :
       /\ touched' = k
       /\ after' = append_to_logs(results, ids, k, "note")
  /\ UNCHANGED <<impl, op, style, tools, names, payloads, pc, index, cur,
                 ret, results, calls, raised, conv, made, given, next_id,
                 cur_id, ids,
                 orchestrator, served, module, wanted>>

\* from agent_tools_hook import n
ImportFrom ==
  /\ pc = "idle"
  /\ \E n \in ImportedNames :
       /\ wanted' = n
       /\ IF n \in module.agent_tools_hook
          THEN pc' = "returned" /\ raised' = NoExc
          ELSE pc' = "raised" /\ raised' = ImportError(n)
  /\ impl' = "enhanced"
  /\ op' = "import"
  /\ UNCHANGED <<style, tools, names, payloads, index, cur, ret, results,
                 calls, conv, made, given, next_id, cur_id, ids, after,
                 touched, orchestrator, served, module>>

\* orchestrator = ToolOrchestrator(); served counts the invocations it has
\* made in the calls that ended before the current one
NewOrchestrator ==
  /\ pc = "idle"
  /\ impl' = "enhanced"
  /\ op' = "orchestrator"
  /\ orchestrator' = ToolOrchestrator_new
  /\ served' = 0
  /\ pc' = "ready"
  /\ UNCHANGED <<style, tools, names, payloads, index, cur, ret, results,
                 calls, raised, conv, made, given, next_id, cur_id, ids,
                 after, touched, module, wanted>>

\* orchestrator.run_all_alternating(tools, names, payloads) on the
\* orchestrator the caller holds: results = []
RunAllAlternating ==
  /\ pc = "ready"
  /\ \E ts \in ToolLists :
       /\ tools' = ts
       /\ names' = NameList(0, Len(ts))
       /\ payloads' = PayloadList(0, Len(ts))
  /\ op' = "run_all_alternating"
  /\ index' = 0
  /\ results' = <<>>
  /\ pc' = "loop"
  /\ UNCHANGED <<impl, style, cur, ret, calls, raised, conv, made, given,
                 next_id, cur_id, ids, after, touched, orchestrator, served,
                 module, wanted>>

\* the caller is done with the outcome of run_all_alternating and keeps the
\* orchestrator for another call
NextCall ==
  /\ pc \in {"returned", "raised"}
  /\ op = "run_all_alternating"
  /\ served + Len(calls) <= MaxServed
  /\ served' = served + Len(calls)
  /\ op' = "orchestrator"
  /\ style' = "none"
  /\ tools' = <<>>
  /\ names' = <<>>
  /\ payloads' = <<>>
  /\ pc' = "ready"
  /\ index' = 0
  /\ cur' = NoResult
  /\ results' = <<>>
  /\ calls' = <<>>
  /\ raised' = NoExc
  /\ next_id' = 1
  /\ cur_id' = 0
  /\ ids' = <<>>
  /\ UNCHANGED <<impl, ret, conv, made, given, after, touched, orchestrator,
                 module, wanted>>

\* invocation.log_style = v, on a ToolInvocation the constructor accepted
SetLogStyle ==
  /\ pc = "returned"
  /\ op = "construct"
  /\ \E v \in {"a", "b", "c", ""} : made' = [made EXCEPT !.log_style = v]
  /\ op' = "set_log_style"
  /\ UNCHANGED <<impl, style, tools, names, payloads, pc, index, cur, ret,
                 results, calls, raised, conv, given, next_id, cur_id, ids,
                 after, touched, orchestrator, served, module, wanted>>

\* invoke_tool(invocation) on the ToolInvocation the caller holds
InvokeMade ==
  /\ pc = "returned"
  /\ op \in {"construct", "set_log_style"}
  /\ style' = made.log_style
  /\ cur' = invoke_tool_begin(made)
  /\ op' = "invoke_made"
  /\ pc' = "tool"
  /\ cur_id' = logs_object(impl, next_id)
  /\ next_id' = next_id + 1
  /\ UNCHANGED <<impl, tools, names, payloads, index, ret, results, calls,
                 raised, conv, made, given, ids, after, touched,
                 orchestrator, served, module, wanted>>

\* the caller is done with the outcome and with the objects it holds; the
\* next call starts afresh
Done ==
  /\ pc \in {"returned", "raised", "ready"}
  /\ impl' = "none"
  /\ op' = "none"
  /\ style' = "none"
  /\ tools' = <<>>
  /\ names' = <<>>
  /\ payloads' = <<>>
  /\ pc' = "idle"
  /\ index' = 0
  /\ cur' = NoResult
  /\ ret' = NoResult
  /\ results' = <<>>
  /\ calls' = <<>>
  /\ raised' = NoExc
  /\ conv' = <<>>
  /\ made' = NoInvocation
  /\ given' = Omitted
  /\ next_id' = 1
  /\ cur_id' = 0
  /\ ids' = <<>>
  /\ after' = <<>>
  /\ touched' = 0
  /\ orchestrator' = NoOrchestrator
  /\ served' = 0
  /\ wanted' = ""
  /\ UNCHANGED module

Next ==
  \/ OriginCallToolA
  \/ OriginCallToolB
  \/ CallToolA
  \/ CallToolB
  \/ InvokeTool
  \/ OriginRunAll
  \/ RunAll
  \/ InvokeAll
  \/ InvokeAllAsDicts
  \/ LoopNext
  \/ LoopEnd
  \/ ToDicts
  \/ ToolReturns
  \/ ToolRaises
  \/ ToolEscapes
  \/ ToDict
  \/ FromDict
  \/ NewToolInvocation
  \/ ClientAppends
  \/ ImportFrom
  \/ NewOrchestrator
  \/ RunAllAlternating
  \/ NextCall
  \/ SetLogStyle
  \/ InvokeMade
  \/ Done

Spec == Init /\ [][Next]_vars

(***************************************************************************)
(* Properties                                                              *)
(***************************************************************************)
\* the invocations finished so far in the current call, each with the
\* request it was given, the style it ran in and the result handed back
Finished ==
  (IF op = "single" /\ pc = "returned"
   THEN {[tool |-> tools[1], name |-> names[1], args |-> payloads[1],
          style |-> style, r |-> ret]}
   ELSE {})
  \cup
  (IF op = "run_all"
   THEN {[tool |-> tools[k], name |-> names[k], args |-> payloads[k],
          style |-> calls[k].style, r |-> results[k]] : k \in 1..Len(results)}
   ELSE {})

\* the call in progress invokes tools (it is not the bare construction of a
\* ToolInvocation)
Invoking ==
  op \in {"single", "run_all", "run_all_as_dicts", "run_all_alternating",
          "invoke_made"}

\* what tool(**args) does for a finished invocation
OutcomeOf(f) == Call(f.tool, f.args)

ReturnedNormally(f) == OutcomeOf(f).kind = "return"

RaisedError(f) == OutcomeOf(f).kind = "raise"

\* the log lines as the specification words them
StartLineA(n, a) == "calling " \o n \o " with " \o reprDict(a)

StartLineB(n, a) == "tool " \o n \o " start " \o reprDict(a)

\* C1: a style-A invocation of a tool that returns v has status 'ok', error
\* None, output v and the logs ["calling {n} with {a!r}", "done"]; for
\* add(x=2, y=3) under the name "add" the output is 5 and the first line is
\* "calling add with {'x': 2, 'y': 3}".
C1_StyleASuccess ==
  \A f \in Finished :
    (f.style = "a" /\ ReturnedNormally(f)) =>
      /\ f.r.status = "ok"
      /\ f.r.error = NoneV
      /\ f.r.output = OutcomeOf(f).out
      /\ f.r.logs = <<StartLineA(f.name, f.args), "done">>
      /\ (f.tool = AddTool /\ f.name = "add" /\ f.args = Payloads[1]) =>
           /\ f.r.output = IntV(5)
           /\ f.r.logs[1] = "calling add with {'x': 2, 'y': 3}"
      /\ (f.name = "mul" /\ f.args = Payloads[3]) =>
           f.r.logs[1] = "calling mul with {'s': 'a'}"
      /\ (f.name = "t" /\ f.args = Payloads[2]) =>
           f.r.logs[1] = "calling t with {}"

C1_Witness ==
  /\ op = "single"
  /\ pc = "returned"
  /\ style = "a"
  /\ tools[1] = AddTool
  /\ payloads[1] = Payloads[1]
  /\ ret.output = IntV(5)
  /\ ret.logs = <<"calling add with {'x': 2, 'y': 3}", "done">>

\* C2: a style-A invocation of a tool that raises an exception (an instance
\* of Exception) with message m returns a result, and the result has status
\* 'error', error m, output None, first log line "calling {n} with {a!r}"
\* and second log line "error: {m}".
C2_StyleAError ==
  /\ (pc = "tool" /\ style = "a") =>
       LET o == Call(tools[index + 1], payloads[index + 1])
       IN (o.kind = "raise" /\ o.exc.cls \in ExceptionClasses) =>
            (ENABLED ToolRaises /\ ~ENABLED ToolEscapes)
  /\ \A f \in Finished :
    (f.style = "a" /\ RaisedError(f)) =>
      /\ f.r.status = "error"
      /\ f.r.error = StrV(OutcomeOf(f).exc.msg)
      /\ f.r.output = NoneV
      /\ f.r.logs[1] = StartLineA(f.name, f.args)
      /\ f.r.logs[2] = "error: " \o OutcomeOf(f).exc.msg
      /\ (f.tool = RaiseTool("ValueError", "boom")) =>
           (f.r.error = StrV("boom") /\ f.r.logs[2] = "error: boom")

C2_Witness ==
  /\ op = "single"
  /\ pc = "returned"
  /\ style = "a"
  /\ tools[1] = RaiseTool("ValueError", "boom")
  /\ ret.status = "error"
  /\ ret.logs[2] = "error: boom"

\* the result a style-A invocation of the same request gives in the
\* implementation now running
StyleAResultOf(f) ==
  Try(impl, op, "a", Begin(impl, op, "a", f.tool, f.name, f.args),
      f.tool, f.name, f.args).result

\* what the try statement of a style-A invocation of the request in
\* progress does, in the implementation now running
StyleATryNow ==
  Try(impl, op, "a",
      Begin(impl, op, "a", tools[index + 1], names[index + 1],
            payloads[index + 1]),
      tools[index + 1], names[index + 1], payloads[index + 1])

\* C3: a style-B invocation logs ["tool {n} start {a!r}", "ok"] when the
\* tool returns and ["tool {n} start {a!r}", "failed: {m}"] when it raises
\* with message m, and its tool_name, status, error, args and output are
\* those of a style-A invocation of the same tool, name and args; an error
\* that leaves a style-B invocation leaves the style-A one as well.
C3_StyleBMirrorsA ==
  /\ (pc = "raised" /\ style = "b") => StyleATryNow.escaped = raised
  /\ \A f \in Finished :
    f.style = "b" =>
      /\ ReturnedNormally(f) => f.r.logs = <<StartLineB(f.name, f.args), "ok">>
      /\ RaisedError(f) =>
           f.r.logs = <<StartLineB(f.name, f.args),
                        "failed: " \o OutcomeOf(f).exc.msg>>
      /\ f.r.tool_name = StyleAResultOf(f).tool_name
      /\ f.r.status = StyleAResultOf(f).status
      /\ f.r.error = StyleAResultOf(f).error
      /\ f.r.args = StyleAResultOf(f).args
      /\ f.r.output = StyleAResultOf(f).output
      /\ (f.name = "add" /\ f.args = Payloads[1]) =>
           f.r.logs[1] = "tool add start {'x': 2, 'y': 3}"

C3_Witness ==
  /\ op = "single"
  /\ pc = "returned"
  /\ style = "b"
  /\ tools[1] = RaiseTool("TypeError", "boom")
  /\ names[1] = "add"
  /\ payloads[1] = Payloads[1]
  /\ ret.logs = <<"tool add start {'x': 2, 'y': 3}", "failed: boom">>
  /\ ret.status = "error"

\* C4 as stated: no invocation ever raises to its caller, whatever error
\* the invoked tool raises.
C4_NeverRaises == Invoking => pc # "raised"

\* C4 as amended: whatever error derived from Exception the invoked tool
\* raises, the invocation returns a result with status 'error'; the only
\* errors that leave an invocation are those outside Exception
\* (KeyboardInterrupt, SystemExit, GeneratorExit), which it lets through
\* unchanged.
C4_ExceptionsAbsorbed ==
  /\ \A f \in Finished : RaisedError(f) => f.r.status = "error"
  /\ pc = "tool" =>
       LET o == Call(tools[index + 1], payloads[index + 1])
       IN (o.kind = "raise" /\ o.exc.cls \in ExceptionClasses) => ~ENABLED ToolEscapes
  /\ (Invoking /\ pc = "raised") =>
       /\ raised.cls \notin ExceptionClasses
       /\ raised = Call(tools[index + 1], payloads[index + 1]).exc

C4_Witness ==
  /\ op = "single"
  /\ pc = "returned"
  /\ Call(tools[1], payloads[1]).kind = "raise"
  /\ Call(tools[1], payloads[1]).exc.cls = "TypeError"
  /\ ret.status = "error"
  /\ raised = NoExc

\* C5 as stated: in every result, status 'error', a non-null error and a
\* null output are equivalent; a result with status 'ok' never has a null
\* output.
C5_ThreeWayEquivalence ==
  \A f \in Finished :
    /\ (f.r.status = "error") <=> (f.r.error # NoneV)
    /\ (f.r.error # NoneV) <=> (f.r.output = NoneV)

\* C5 as amended: in every result, status is 'error' exactly when error is
\* non-null, and a result with status 'error' has a null output; a result
\* with status 'ok' carries the tool's return value as output, which is
\* null exactly when the tool returned None.
C5_ErrorIffStatus ==
  \A f \in Finished :
    /\ f.r.status \in {"ok", "error"}
    /\ (f.r.status = "error") <=> (f.r.error # NoneV)
    /\ (f.r.status = "error") => (f.r.output = NoneV)
    /\ (f.r.status = "ok") =>
         /\ ReturnedNormally(f)
         /\ f.r.output = OutcomeOf(f).out
    /\ (f.r.status = "error") <=> RaisedError(f)

C5_Witness ==
  /\ op = "single"
  /\ pc = "returned"
  /\ tools[1] = ReturnTool(NoneV)
  /\ ret.status = "ok"
  /\ ret.error = NoneV
  /\ ret.output = NoneV

\* C6: every result has exactly two log entries, the start line of its
\* style first and the outcome line of its style second.
C6_TwoLogLines ==
  \A f \in Finished :
    /\ Len(f.r.logs) = 2
    /\ f.r.logs[1] = (IF f.style = "a" THEN StartLineA(f.name, f.args)
                      ELSE StartLineB(f.name, f.args))
    /\ f.r.logs[2] =
         (IF ReturnedNormally(f)
          THEN (IF f.style = "a" THEN "done" ELSE "ok")
          ELSE (IF f.style = "a" THEN "error: " ELSE "failed: ")
               \o OutcomeOf(f).exc.msg)

C6_Witness ==
  /\ op = "run_all"
  /\ pc = "returned"
  /\ Len(results) = 2
  /\ results[1].status = "error"
  /\ results[2].status = "ok"
  /\ Len(results[1].logs) = 2
  /\ Len(results[2].logs) = 2

\* every invocation begun or finished so far carries the name and the
\* argument mapping of its request
C7_Echo ==
  /\ \A f \in Finished : f.r.args = f.args /\ f.r.tool_name = f.name
  /\ pc = "tool" =>
       /\ cur.args = payloads[index + 1]
       /\ cur.tool_name = names[index + 1]

\* C7: the args field of a result equals the argument mapping of the
\* request and its tool_name the name passed in, and no step of the
\* invocation adds, removes or changes an entry of the request's lists.
C7_ArgsPreserved ==
  [][ /\ C7_Echo'
      /\ (pc \notin {"idle", "ready"} /\ pc' \notin {"idle", "ready"}) =>
           (payloads' = payloads /\ names' = names /\ tools' = tools) ]_vars

C7_Witness ==
  /\ op = "single"
  /\ pc = "returned"
  /\ payloads[1] = Payloads[1]
  /\ ret.args = << <<"x", IntV(2)>>, <<"y", IntV(3)>> >>
  /\ ret.tool_name = names[1]

Parity(k) == IF k % 2 = 0 THEN "a" ELSE "b"

\* C8: a run_all variant invokes position i in style A when i is even and
\* in style B when i is odd, whatever happened at earlier positions; the
\* start line of the result at position i is the one of that style.
C8_StyleByPosition ==
  op = "run_all" =>
    /\ \A k \in 1..Len(calls) :
         calls[k].pos = k - 1 /\ calls[k].style = Parity(k - 1)
    /\ \A k \in 1..Len(results) :
         results[k].logs[1] =
           (IF (k - 1) % 2 = 0 THEN StartLineA(names[k], payloads[k])
            ELSE StartLineB(names[k], payloads[k]))
    /\ pc = "tool" => style = Parity(index)

C8_Witness ==
  /\ op = "run_all"
  /\ pc = "returned"
  /\ Len(results) = 3
  /\ results[1].status = "error"
  /\ results[2].status = "error"
  /\ results[3].status = "ok"
  /\ calls[3].style = "a"
  /\ calls[2].style = "b"

EqualLengths == Len(tools) = Len(names) /\ Len(names) = Len(payloads)

\* the positions at which a tool was invoked, in the order of invocation
CalledPositions == [k \in 1..Len(calls) |-> calls[k].pos]

\* C9 as stated: for equal-length inputs of length k every call of a
\* run_all variant ends with the tools at positions 0..k-1 invoked exactly
\* once each, in increasing order, whatever the tools at earlier positions
\* raised.
C9_AlwaysReachesEnd ==
  (op = "run_all" /\ EqualLengths /\ pc \in {"returned", "raised"}) =>
    CalledPositions = [k \in 1..Len(tools) |-> k - 1]

\* C9 as amended: the tools are invoked in increasing position order, each
\* at most once and none skipped; for equal-length inputs of length k a
\* run_all variant that returns has invoked every tool at positions 0..k-1
\* exactly once, even when tools at earlier positions raised errors derived
\* from Exception; the loop stops before the end of the input only when a
\* tool raises an error outside Exception, which leaves run_all at that
\* position.
C9_NeverSkips ==
  op = "run_all" =>
    /\ CalledPositions = [k \in 1..Len(calls) |-> k - 1]
    /\ (EqualLengths /\ pc = "returned") => Len(calls) = Len(tools)
    /\ pc = "loop" => Len(calls) = index
    /\ pc = "raised" =>
         /\ Len(calls) = index + 1
         /\ Call(tools[index + 1], payloads[index + 1]).kind = "raise"
         /\ Call(tools[index + 1], payloads[index + 1]).exc.cls
              \notin ExceptionClasses

C9_Witness ==
  /\ op = "run_all"
  /\ pc = "returned"
  /\ EqualLengths
  /\ Len(tools) = 3
  /\ Call(tools[1], payloads[1]).kind = "raise"
  /\ Call(tools[2], payloads[2]).kind = "raise"
  /\ CalledPositions = <<0, 1, 2>>

\* C10: the list a run_all variant returns has, at position i, the name
\* names[i], the args payloads[i] and the outcome of tools[i]; its length is
\* that of the shortest input, so for equal-length inputs that of the
\* input.
C10_OrderPreserved ==
  (op = "run_all" /\ pc = "returned") =>
    /\ Len(results) = zip_len(tools, names, payloads)
    /\ EqualLengths => Len(results) = Len(tools)
    /\ \A k \in 1..Len(results) :
         LET o == Call(tools[k], payloads[k]) IN
         /\ results[k].tool_name = names[k]
         /\ results[k].args = payloads[k]
         /\ results[k].status = (IF o.kind = "return" THEN "ok" ELSE "error")
         /\ results[k].output = o.out
         /\ results[k].error =
              (IF o.kind = "return" THEN NoneV ELSE StrV(o.exc.msg))

C10_Witness ==
  /\ op = "run_all"
  /\ pc = "returned"
  /\ EqualLengths
  /\ Len(results) = 3
  /\ results[1].tool_name # results[2].tool_name
  /\ results[2].tool_name # results[3].tool_name
  /\ results[1].status = "ok"
  /\ results[1].output = IntV(5)
  /\ results[2].status = "error"
  /\ results[3].output = NoneV
  /\ results[3].status = "ok"

\* the length of the shortest of the three input lists
ShortestLen ==
  CHOOSE m \in {Len(tools), Len(names), Len(payloads)} :
    \A n \in {Len(tools), Len(names), Len(payloads)} : m <= n

\* C11: when the three input lists of a run_all variant differ in length,
\* the list it returns has exactly min(len(tools), len(names),
\* len(payloads)) results, the mismatch raises no error (the only error
\* that leaves the call is one a tool raised), and no tool at a position at
\* or beyond that minimum is ever invoked.
C11_ZipToShortest ==
  (op = "run_all" /\ ~EqualLengths) =>
    /\ \A k \in 1..Len(calls) : calls[k].pos < ShortestLen
    /\ pc = "tool" => index < ShortestLen
    /\ pc = "returned" =>
         /\ Len(results) = ShortestLen
         /\ Len(calls) = ShortestLen
    /\ pc = "raised" =>
         /\ index < ShortestLen
         /\ raised = Call(tools[index + 1], payloads[index + 1]).exc
         /\ Call(tools[index + 1], payloads[index + 1]).kind = "raise"

C11_Witness ==
  /\ op = "run_all"
  /\ pc = "returned"
  /\ Len(tools) = 3
  /\ Len(names) = 2
  /\ Len(payloads) = 3
  /\ Len(results) = 2
  /\ CalledPositions = <<0, 1>>

\* C12: a run_all variant given three empty lists returns an empty list and
\* invokes nothing.
C12_EmptyInput ==
  (op = "run_all" /\ tools = <<>> /\ names = <<>> /\ payloads = <<>>) =>
    /\ pc \in {"loop", "returned"}
    /\ results = <<>>
    /\ calls = <<>>
    /\ pc = "loop" => (ENABLED LoopEnd /\ ~ENABLED LoopNext)

C12_Witness ==
  /\ op = "run_all"
  /\ pc = "returned"
  /\ tools = <<>>
  /\ names = <<>>
  /\ payloads = <<>>
  /\ results = <<>>
  /\ calls = <<>>

\* the baseline call_tool_a (s = "a") or call_tool_b (s = "b") on a request
BaselineCall(s, tool, name, args) ==
  Try("origin", "single", s, Begin("origin", "single", s, tool, name, args),
      tool, name, args)

RECURSIVE BaselineRunAllFrom(_, _, _, _, _)
\* the baseline run_all from position i on, acc being the results so far:
\* the list it returns, the error that leaves it and the number of tools it
\* has invoked
BaselineRunAllFrom(ts, ns, ps, i, acc) ==
  IF i >= zip_len(ts, ns, ps)
  THEN [results |-> acc, escaped |-> NoExc, invoked |-> i]
  ELSE LET t == BaselineCall(origin_run_all_style(i), ts[i + 1], ns[i + 1],
                             ps[i + 1])
       IN IF t.escaped # NoExc
          THEN [results |-> acc, escaped |-> t.escaped, invoked |-> i + 1]
          ELSE BaselineRunAllFrom(ts, ns, ps, i + 1, Append(acc, t.result))

BaselineRunAll(ts, ns, ps) == BaselineRunAllFrom(ts, ns, ps, 0, <<>>)

C15_AsDictsEqualsBaseline ==
  op = "run_all_as_dicts" =>
    LET b == BaselineRunAll(tools, names, payloads) IN
    /\ CalledPositions = [k \in 1..Len(calls) |-> k - 1]
    /\ Len(calls) <= b.invoked
    /\ pc = "returned" =>
         /\ b.escaped = NoExc
         /\ results = b.results
         /\ \A k \in 1..Len(results) :
              IsDict(results[k]) /\ results[k].keys = b.results[k].keys
         /\ Len(calls) = b.invoked
    /\ pc = "raised" =>
         /\ raised = b.escaped
         /\ Len(calls) = b.invoked

C15_Witness ==
  /\ op = "run_all_as_dicts"
  /\ pc = "returned"
  /\ Len(results) = 3
  /\ results[1].status = "ok"
  /\ results[2].status = "error"
  /\ results[2].logs[2] = "failed: boom"

\* the six fields of a result, whichever form it is in
SixFields(x) == <<x.tool_name, x.status, x.error, x.args, x.output, x.logs>>

\* C16: round trip: for every ToolResult r, ToolResult.from_dict(r.to_dict())
\* has the same tool_name, status, error, args, output and logs as r, and
\* for every baseline-format dictionary d, ToolResult.from_dict(d).to_dict()
\* equals d.
C16_RoundTrip ==
  (op = "single" /\ pc = "returned") =>
    /\ Len(conv) >= 1 =>
         /\ IsDict(conv[1]) # IsDict(ret)
         /\ SixFields(conv[1]) = SixFields(ret)
    /\ Len(conv) = 2 =>
         /\ IsDict(conv[2]) = IsDict(ret)
         /\ SixFields(conv[2]) = SixFields(ret)
         /\ conv[2] = ret

C16_Witness ==
  /\ impl = "hooks"
  /\ op = "single"
  /\ pc = "returned"
  /\ Len(conv) = 2
  /\ ~IsDict(ret)
  /\ ret.status = "error"
  /\ conv[2].error = StrV("boom")

\* the plain-record results the call has produced so far: what the baseline
\* and the rewrite return, what invoke_all_as_dicts returns, and what
\* ToolResult.to_dict returned to the caller
PlainRecords ==
  (IF op = "single" /\ pc = "returned" /\ impl \in {"origin", "enhanced"}
   THEN {ret} ELSE {})
  \cup
  (IF op = "run_all" /\ impl \in {"origin", "enhanced"}
   THEN {results[k] : k \in 1..Len(results)} ELSE {})
  \cup
  (IF op = "run_all_as_dicts" /\ pc = "returned"
   THEN {results[k] : k \in 1..Len(results)} ELSE {})
  \cup
  {conv[k] : k \in {j \in 1..Len(conv) : (impl = "hooks") = (j = 1)}}

\* C17: every plain-record result (baseline call_tool_a/call_tool_b,
\* rewrite call_tool_a/call_tool_b, ToolResult.to_dict) has exactly the six
\* keys tool_name, status, error, args, output, logs, in that order, and no
\* others.
C17_SixKeysInOrder ==
  \A d \in PlainRecords :
    /\ "keys" \in DOMAIN d
    /\ d.keys = <<"tool_name", "status", "error", "args", "output", "logs">>
    /\ DOMAIN d = {"keys"} \cup {d.keys[k] : k \in 1..Len(d.keys)}

C17_Witness ==
  /\ impl = "enhanced"
  /\ op = "run_all"
  /\ pc = "returned"
  /\ Len(results) = 2
  /\ results[1].status = "error"
  /\ results[2].status = "ok"
  /\ results[2] \in PlainRecords

\* sub occurs in the string s
Contains(s, sub) ==
  \E i \in 1..(Len(s) - Len(sub) + 1) : SubSeq(s, i, i + Len(sub) - 1) = sub

\* C18: constructing a ToolInvocation with a log_style other than 'a' or
\* 'b' raises ValueError whose message contains "log_style must be 'a' or
\* 'b'" and produces no invocation object; when log_style is omitted it
\* defaults to 'a'.
C18_LogStyleValidated ==
  op = "construct" =>
    /\ (given.present /\ given.value \notin {"a", "b"}) =>
         /\ pc = "raised"
         /\ raised.cls = "ValueError"
         /\ Contains(raised.msg, "log_style must be 'a' or 'b'")
         /\ made = NoInvocation
    /\ ~given.present =>
         /\ pc = "returned"
         /\ made = ToolInvocation(tools[1], names[1], payloads[1], "a")
    /\ (given.present /\ given.value \in {"a", "b"}) =>
         /\ pc = "returned"
         /\ made.log_style = given.value

C18_Witness ==
  /\ op = "construct"
  /\ pc = "raised"
  /\ given = Given("c")
  /\ made = NoInvocation
  /\ raised = [cls |-> "ValueError",
               msg |-> "log_style must be 'a' or 'b', got 'c'"]

\* C19: results of separate invocations are independent: each invocation
\* returns a result with its own log list, so after any sequence of
\* invocations (several of them through one reused ToolCaller of a
\* ToolOrchestrator) appending to one result's logs changes no other
\* result's logs.
C19_IndependentLogs ==
  op = "run_all" =>
    /\ Len(ids) = Len(results)
    /\ \A j, k \in 1..Len(ids) : j # k => ids[j] # ids[k]
    /\ touched # 0 =>
         /\ Len(after) = Len(results)
         /\ after[touched].logs = Append(results[touched].logs, "note")
         /\ \A j \in 1..Len(results) : j # touched => after[j] = results[j]

C19_Witness ==
  /\ impl = "enhanced"
  /\ op = "run_all"
  /\ pc = "returned"
  /\ Len(results) = 3
  /\ touched = 1
  /\ Len(after[1].logs) = 3
  /\ Len(after[3].logs) = 2

\* C20: agent_tools_hook.call_tool_a and call_tool_b return a structured
\* result object (not a plain dictionary) that has a to_dict() method and a
\* mutable meta mapping; its to_dict() equals the baseline dictionary for
\* the same call, and entries added to meta never appear in to_dict().
C20_StructuredResult ==
  (impl = "enhanced" /\ op = "single" /\ pc = "returned") =>
    /\ ~IsDict(ret)
    /\ "meta" \in DOMAIN ret
    /\ ToolResult_to_dict(ret) =
         BaselineCall(style, tools[1], names[1], payloads[1]).result
    /\ "meta" \notin DOMAIN ToolResult_to_dict(ret)

\* C21: agent_tools_hook provides invoke_single_tool(tool, name, args,
\* log_style) and run_all_tools(tools, names, payloads) returning ToolResult
\* objects whose to_dict() equals what the baseline call_tool_a, call_tool_b
\* and run_all return: a caller that asks agent_tools_hook for either name
\* gets it.
C21_ProvidesStructuredApi ==
  (op = "import" /\ wanted \in {"invoke_single_tool", "run_all_tools"}) =>
    /\ wanted \in module.agent_tools_hook
    /\ pc = "returned"
    /\ raised = NoExc

\* the result of invoking the tool alone, through the single-invocation
\* entry point of implementation i with style s
AloneResult(i, s, tool, name, args) ==
  Returned(i, Try(i, "single", s, Begin(i, "single", s, tool, name, args),
                  tool, name, args).result)

\* C22: a failure at one position of a run_all variant does not affect any
\* other position: the result at position i equals the result of invoking
\* tools[i] alone with names[i], payloads[i] and the style of i's parity,
\* whether or not tools at other positions raised; with a raising tool at
\* index 1 only, results 0 and 2 keep status 'ok'.
C22_FailureIsolation ==
  op = "run_all" =>
    /\ \A k \in 1..Len(results) :
         results[k] = AloneResult(impl, Parity(k - 1), tools[k], names[k],
                                  payloads[k])
    /\ (/\ Len(results) = 3
        /\ Call(tools[1], payloads[1]).kind = "return"
        /\ Call(tools[2], payloads[2]).kind = "raise"
        /\ Call(tools[3], payloads[3]).kind = "return") =>
         /\ results[1].status = "ok"
         /\ results[2].status = "error"
         /\ results[3].status = "ok"
         /\ results[3].output = Call(tools[3], payloads[3]).out

C22_Witness ==
  /\ op = "run_all"
  /\ pc = "returned"
  /\ Len(results) = 3
  /\ tools[2] = RaiseTool("ValueError", "boom")
  /\ results[1].status = "ok"
  /\ results[2].status = "error"
  /\ results[2].logs[2] = "failed: boom"
  /\ results[3].status = "ok"

\* C23: each invocation calls the tool exactly once, whether it returns or
\* raises: there is no retry after a failure and no second call after a
\* success.
C23_CalledOnce ==
  Invoking =>
    /\ \A j, k \in 1..Len(calls) : j # k => calls[j].pos # calls[k].pos
    /\ pc = "tool" => Len(calls) = index
    /\ pc = "loop" => Len(calls) = index /\ Len(results) = index
    /\ pc = "raised" => Len(calls) = index + 1
    /\ (pc = "returned" /\ op \in {"single", "invoke_made"}) => Len(calls) = 1
    /\ (pc \in {"convert", "returned"}
        /\ op \in {"run_all", "run_all_as_dicts", "run_all_alternating"}) =>
         /\ Len(calls) = Len(results)
         /\ Len(calls) = zip_len(tools, names, payloads)

C23_Witness ==
  /\ op = "run_all"
  /\ impl = "hooks"
  /\ pc = "returned"
  /\ Len(calls) = 3
  /\ results[1].status = "error"
  /\ results[2].status = "ok"
  /\ results[3].status = "error"
  /\ calls[1].pos = 0
  /\ calls[3].pos = 2

\* the result the implementation and entry point now running give for the
\* same name, args and style when the tool raises an error of class c with
\* message m
ResultOfRaising(c, m, f) ==
  Returned(impl, Try(impl, op, f.style,
                     Begin(impl, op, f.style, RaiseTool(c, m), f.name, f.args),
                     RaiseTool(c, m), f.name, f.args).result)

\* C24: error subtypes are flattened: two tools that raise errors of
\* different types (both derived from Exception) with the same message text
\* produce identical results, with the same status, error, output and logs,
\* for the same name, args and style.
C24_SubtypesFlattened ==
  \A f \in Finished :
    RaisedError(f) =>
      \A c \in ExceptionClasses :
        /\ f.r = ResultOfRaising(c, OutcomeOf(f).exc.msg, f)
        /\ f.r.error = StrV(OutcomeOf(f).exc.msg)
        /\ f.r.logs[2] = (IF f.style = "a" THEN "error: " ELSE "failed: ")
                         \o OutcomeOf(f).exc.msg

C24_Witness ==
  /\ op = "single"
  /\ pc = "returned"
  /\ style = "b"
  /\ tools[1] = RaiseTool("TypeError", "boom")
  /\ ret.error = StrV("boom")
  /\ \E f \in Finished : f.r = ResultOfRaising("ValueError", "boom", f)

\* the result under construction at the moment the tool runs
C25_AtToolCall ==
  pc = "tool" =>
    /\ cur.logs = << IF style = "a"
                     THEN StartLineA(names[index + 1], payloads[index + 1])
                     ELSE StartLineB(names[index + 1], payloads[index + 1]) >>
    /\ cur.status = "ok"
    /\ cur.error = NoneV
    /\ cur.output = NoneV

\* C25: the start log line is recorded before the tool is invoked and the
\* outcome line after it finishes: at the moment the tool runs, the
\* result's logs hold exactly the start line, status is still 'ok', and
\* error and output are still null; the step in which the tool finishes
\* adds the outcome line behind the start line.
C25_StartLineBeforeTool ==
  [][ /\ C25_AtToolCall'
      /\ (pc = "tool" /\ pc' \in {"loop", "returned"}) =>
           /\ Len(cur'.logs) = 2
           /\ cur'.logs[1] = cur.logs[1] ]_vars

C25_Witness ==
  /\ impl = "origin"
  /\ op = "run_all"
  /\ pc = "tool"
  /\ index = 1
  /\ style = "b"
  /\ names[2] = "t"
  /\ payloads[2] = Payloads[3]
  /\ cur.logs = <<"tool t start {'s': 'a'}">>
  /\ cur.status = "ok"

\* C26: invocations have no side effect beyond building the returned
\* result: no step of an invocation or of a run_all call changes what a
\* module binds at module level, and a ToolOrchestrator's callers and their
\* log strategies are the same after run_all_alternating as before it.
C26_NoSideEffects ==
  [][ /\ module' = module
      /\ (orchestrator # NoOrchestrator /\ pc' # "idle") =>
           orchestrator' = orchestrator
      /\ (op' = "run_all_alternating" /\ pc' \in {"returned", "raised"}) =>
           /\ orchestrator'.callers.a.log_strategy = "LogStrategyA"
           /\ orchestrator'.callers.b.log_strategy = "LogStrategyB" ]_vars

C26_Witness ==
  /\ op = "run_all_alternating"
  /\ pc = "returned"
  /\ served = 2
  /\ Len(results) = 1
  /\ results[1].status = "error"
  /\ orchestrator = ToolOrchestrator_new
  /\ module = Modules

\* C27: the style alternation restarts on every orchestration call: after
\* any sequence of run_all_alternating calls on one ToolOrchestrator (of
\* any lengths, odd or even, with any failures), the next call again uses
\* style A at its position 0 and alternates from there; no position counter
\* is carried from one call to the next.
C27_AlternationRestarts ==
  op = "run_all_alternating" =>
    /\ \A k \in 1..Len(calls) :
         calls[k].pos = k - 1 /\ calls[k].style = Parity(k - 1)
    /\ pc = "tool" => style = Parity(index)
    /\ \A k \in 1..Len(results) :
         results[k].logs[1] =
           (IF (k - 1) % 2 = 0 THEN StartLineA(names[k], payloads[k])
            ELSE StartLineB(names[k], payloads[k]))

C27_Witness ==
  /\ op = "run_all_alternating"
  /\ served = 3
  /\ pc = "returned"
  /\ Len(results) = 2
  /\ results[1].logs = <<"calling add with {'x': 2, 'y': 3}", "error: boom">>
  /\ results[2].logs[1] = "tool t start {}"
  /\ calls[1].style = "a"

\* C28: invoke_tool treats every log_style other than 'a' as style B: if an
\* invocation's log_style is changed after construction to a value that is
\* neither 'a' nor 'b', invoke_tool raises no error of its own and produces
\* the style-B start line and the style-B outcome line ('ok' or
\* 'failed: {m}'), so the two lines of one result always come from the same
\* style.
C28_OtherStylesAreB ==
  op = "invoke_made" =>
    LET o == Call(made.tool, made.args) IN
    /\ style = made.log_style
    /\ pc = "raised" =>
         /\ o.kind = "raise"
         /\ raised = o.exc
         /\ raised.cls \notin ExceptionClasses
    /\ (pc = "tool" /\ made.log_style # "a") =>
         cur.logs = <<StartLineB(made.name, made.args)>>
    /\ (pc = "returned" /\ made.log_style # "a") =>
         /\ ret.logs[1] = StartLineB(made.name, made.args)
         /\ ret.logs[2] = (IF o.kind = "return" THEN "ok"
                           ELSE "failed: " \o o.exc.msg)
         /\ ret = AloneResult("hooks", "b", made.tool, made.name, made.args)
    /\ (pc = "returned" /\ made.log_style = "a") =>
         /\ ret.logs[1] = StartLineA(made.name, made.args)
         /\ ret.logs[2] = (IF o.kind = "return" THEN "done"
                           ELSE "error: " \o o.exc.msg)

C28_Witness ==
  /\ op = "invoke_made"
  /\ pc = "returned"
  /\ given = Given("a")
  /\ made.log_style = "c"
  /\ made.tool = RaiseTool("ValueError", "boom")
  /\ made.name = "add"
  /\ made.args = Payloads[1]
  /\ ret.logs = <<"tool add start {'x': 2, 'y': 3}", "failed: boom">>

====
